---- MODULE Spec2Model ----
(***************************************************************************)
(* Model of api_server.js: the Express endpoint POST /api/auth guarded by  *)
(* verifyApiToken, the browser-driven harvest getCheckoutChampAuth, and    *)
(* GET /health.  One request is followed from its arrival to its response; *)
(* every await of the harvest is one step, and every awaited call of the   *)
(* browser library may resolve or reject.                                  *)
(***************************************************************************)
EXTENDS Integers, Sequences, FiniteSets, TLC

(***************************************************************************)
(* JavaScript values.  Strings are TLA+ strings; undefined and null are    *)
(* two values outside every pool of strings used below.                    *)
(***************************************************************************)
Undef == "<undefined>"
Null == "<null>"

\* !v for the values used here (strings, undefined, null)
Falsy(v) == v \in {Undef, Null, ""}

\* a || b
JsOr(a, b) == IF Falsy(a) THEN b ELSE a

(***************************************************************************)
(* Bounds and input pools                                                  *)
(***************************************************************************)
\* most inline <script> elements on the page read by page.evaluate
MaxScripts == 2

\* values process.env can give to a variable: unset, empty, set
EnvValues(v) == {Undef, "", v}

\* values of req.headers['x-api-token']: header absent, empty, right, wrong
HeaderValues == {Undef, "", "secret", "wrong"}

\* page.url() as the sequence of its path segments
LoginPath == <<>>
DashboardPath == <<"dashboard">>
UrlPool == {LoginPath, DashboardPath}

\* result of page.$('body >> text=reports') !== null, or a rejection
TextPool == {"found", "absent"}

\* An inline script is the sequence of its aDom.construct({...}) calls, a
\* call is the sequence of the key: 'value' pairs between its braces.
Pair(k, v) == [key |-> k, val |-> v]
ScriptPool ==
  { <<>>,
    << <<Pair("csrfToken", "tokA")>> >>,
    << <<Pair("csrfToken", "tokB"), Pair("currentCompanyId", "77")>> >>,
    << <<Pair("currentCompanyId", "15")>> >>,
    << <<Pair("csrfToken", ""), Pair("currentCompanyId", "1a"),
         Pair("csrfToken", "tokC")>> >>,
    << <<Pair("debug", "on")>>, <<Pair("csrfToken", "tokD")>> >>,
    << <<>>, <<Pair("currentCompanyId", "99")>> >> }

\* the values of the pool that the pattern \d+ matches as a whole
DigitStrings == {"77", "15", "99"}

SeqsUpTo(S, n) == UNION { [1..k -> S] : k \in 0..n }
Pages == SeqsUpTo(ScriptPool, MaxScripts)

\* cookie jars: an unrelated cookie, then each named cookie absent, present
\* with an empty value, or present with a value
CookieNames == <<"crmid", "k_region", "__cf_bm">>
Absent == "<absent>"
JarOf(f) ==
  LET named == [i \in 1..3 |-> [name |-> CookieNames[i], value |-> f[i]]]
  IN  <<[name |-> "PHPSESSID", value |-> "s1"]>>
        \o SelectSeq(named, LAMBDA c : c.value # Absent)
CookieJars == { JarOf(f) : f \in [1..3 -> {Absent, "", "v"}] }

VARIABLES
  API_TOKEN, CHECKOUTCHAMP_USER, CHECKOUTCHAMP_PASS,
  pc, req, response, sent,
  browser, launchCalls, closeCalls, gotoCalls, filled,
  navP, clickP, checks, loggedIn, fallbackCount, fallbackRes,
  cookies, scripts, authData, bundle,
  failStep, origErr, err,
  parked

config == <<API_TOKEN, CHECKOUTCHAMP_USER, CHECKOUTCHAMP_PASS>>
http == <<req, response, sent>>
driver == <<browser, launchCalls, closeCalls, gotoCalls, filled, navP, clickP>>
verifier == <<checks, loggedIn, fallbackCount, fallbackRes>>
extract == <<cookies, scripts, authData, bundle>>
errors == <<failStep, origErr, err>>
vars == <<config, pc, http, driver, verifier, extract, errors, parked>>

NoBundle == [kind |-> "none"]
NoResponse == [status |-> 0, error |-> "", message |-> "", body |-> NoBundle]
NoAuthData == [csrf |-> Undef, companyId |-> Undef]


\* the state of one invocation of the handler: everything but the
\* configuration, which the module reads once
Locals ==
  [pc |-> pc, req |-> req, response |-> response, sent |-> sent,
   browser |-> browser, launchCalls |-> launchCalls,
   closeCalls |-> closeCalls, gotoCalls |-> gotoCalls, filled |-> filled,
   navP |-> navP, clickP |-> clickP, checks |-> checks,
   loggedIn |-> loggedIn, fallbackCount |-> fallbackCount,
   fallbackRes |-> fallbackRes, cookies |-> cookies, scripts |-> scripts,
   authData |-> authData, bundle |-> bundle, failStep |-> failStep,
   origErr |-> origErr, err |-> err]

\* an invocation that has not started
IdleLocals ==
  [pc |-> "idle", req |-> [path |-> "", token |-> Undef],
   response |-> NoResponse, sent |-> 0,
   browser |-> "none", launchCalls |-> 0, closeCalls |-> 0, gotoCalls |-> 0,
   filled |-> {}, navP |-> "none", clickP |-> "none", checks |-> <<>>,
   loggedIn |-> FALSE, fallbackCount |-> 0, fallbackRes |-> "none",
   cookies |-> <<>>, scripts |-> <<>>, authData |-> NoAuthData,
   bundle |-> NoBundle, failStep |-> "none", origErr |-> "", err |-> ""]

(***************************************************************************)
(* Constants of the source                                                 *)
(***************************************************************************)
ConfigMsg == "Missing CHECKOUTCHAMP_USER or CHECKOUTCHAMP_PASS environment variables"
LoginFailedMsg == "Login failed - could not reach dashboard"
DefaultCompanyId == "4623"
SessionTimeoutMinutes == 240

\* message of the error a rejected library call carries
LibErr(step) == "rejected: " \o step
CloseErr == LibErr("browser.close")

(***************************************************************************)
(* verifyApiToken: "401", "403" or "next"                                  *)
(***************************************************************************)
verifyApiToken_NoForbidden(token) ==
  IF Falsy(token) THEN "401" ELSE "next"

verifyApiToken_NoMissingCheck(token) ==
  IF token # API_TOKEN THEN "403" ELSE "next"

verifyApiToken(token) ==
  IF Falsy(token) THEN "401"
  ELSE IF token # API_TOKEN THEN "403"
  ELSE "next"

\* if (!USER || !PASS)
CredsMissing_UserOnly(USER, PASS) == Falsy(USER)

CredsMissing(USER, PASS) == Falsy(USER) \/ Falsy(PASS)

(***************************************************************************)
(* Login verification: url.includes('/dashboard') || (await page.$(...)    *)
(* !== null).  The text probe is not made when the URL already matches.    *)
(***************************************************************************)
IncludesDashboard(url) == \E i \in 1..Len(url) : url[i] = "dashboard"

Observe(url, text) ==
  [url |-> url, text |-> IF IncludesDashboard(url) THEN "skipped" ELSE text]

Confirmed_Always(obs) == TRUE

Confirmed_TextOnly(obs) == obs.text = "found"

Confirmed(obs) == IncludesDashboard(obs.url) \/ obs.text = "found"

(***************************************************************************)
(* The callback of page.evaluate                                           *)
(***************************************************************************)
MinOf(S) == CHOOSE x \in S : \A y \in S : x <= y

\* text.match(/aDom\.construct\s*\(\s*\{([^}]+)\}\s*\)/): the first call of
\* the script with at least one character between its braces
AdomMatch(script) ==
  LET idx == { i \in 1..Len(script) : Len(script[i]) > 0 }
  IN  IF idx = {} THEN [found |-> FALSE, configStr |-> <<>>]
      ELSE [found |-> TRUE, configStr |-> script[MinOf(idx)]]

\* configStr.match(/['"]?csrfToken['"]?\s*:\s*['"]([^'"]+)['"]/): group 1 of
\* the first csrfToken pair with a non-empty value, Null without a match
CsrfMatch(configStr) ==
  LET idx == { i \in 1..Len(configStr) :
                 configStr[i].key = "csrfToken" /\ configStr[i].val # "" }
  IN  IF idx = {} THEN Null ELSE configStr[MinOf(idx)].val

\* configStr.match(/['"]?currentCompanyId['"]?\s*:\s*['"](\d+)['"]/)
CompanyMatch(configStr) ==
  LET idx == { i \in 1..Len(configStr) :
                 /\ configStr[i].key = "currentCompanyId"
                 /\ configStr[i].val \in DigitStrings }
  IN  IF idx = {} THEN Null ELSE configStr[MinOf(idx)].val

\* the body of the for loop for one script
ScanScript_LastWins(acc, script) ==
  LET m == AdomMatch(script)
      csrfMatch == CsrfMatch(m.configStr)
      companyMatch == CompanyMatch(m.configStr)
  IN  IF ~m.found THEN acc
      ELSE [csrf |-> IF csrfMatch # Null THEN csrfMatch ELSE acc.csrf,
            companyId |-> IF companyMatch # Null THEN companyMatch
                          ELSE acc.companyId]

ScanScript_ResetOnMiss(acc, script) ==
  LET m == AdomMatch(script)
      csrfMatch == CsrfMatch(m.configStr)
      companyMatch == CompanyMatch(m.configStr)
  IN  IF ~m.found THEN [csrf |-> Null, companyId |-> Null]
      ELSE [csrf |-> IF csrfMatch # Null /\ Falsy(acc.csrf)
                     THEN csrfMatch ELSE acc.csrf,
            companyId |-> IF companyMatch # Null /\ Falsy(acc.companyId)
                          THEN companyMatch ELSE acc.companyId]

ScanScript(acc, script) ==
  LET m == AdomMatch(script)
      csrfMatch == CsrfMatch(m.configStr)
      companyMatch == CompanyMatch(m.configStr)
  IN  IF ~m.found THEN acc
      ELSE [csrf |-> IF csrfMatch # Null /\ Falsy(acc.csrf)
                     THEN csrfMatch ELSE acc.csrf,
            companyId |-> IF companyMatch # Null /\ Falsy(acc.companyId)
                          THEN companyMatch ELSE acc.companyId]

RECURSIVE ScanFrom(_, _, _)
ScanFrom(ss, i, acc) ==
  IF i > Len(ss) THEN acc ELSE ScanFrom(ss, i + 1, ScanScript(acc, ss[i]))

EvaluateAuthData(ss) == ScanFrom(ss, 1, [csrf |-> Null, companyId |-> Null])

(***************************************************************************)
(* Cookie lookup and the response object                                   *)
(***************************************************************************)
\* cookies.find(c => c.name === n)?.value
FindValue(jar, n) ==
  LET idx == { i \in 1..Len(jar) : jar[i].name = n }
  IN  IF idx = {} THEN Undef ELSE jar[MinOf(idx)].value

\* authData.companyId || '4623'
CompanyHeader(companyId) == JsOr(companyId, DefaultCompanyId)

\* authData.csrf || null
CsrfHeader_Default(csrf) == JsOr(csrf, DefaultCompanyId)

CsrfHeader(csrf) == JsOr(csrf, Null)

authVariables_NoNull(jar, data, USER) ==
  [kind |-> "bundle",
   cookies |-> [crmid |-> FindValue(jar, "crmid"),
                k_region |-> FindValue(jar, "k_region"),
                cf_bm |-> FindValue(jar, "__cf_bm"),
                all_cookies |-> jar],
   headers |-> [X_COMPANY_ID |-> CompanyHeader(data.companyId),
                X_CSRF_Token |-> CsrfHeader(data.csrf)],
   session_info |-> [username |-> USER,
                     company_id |-> CompanyHeader(data.companyId),
                     session_timeout_minutes |-> SessionTimeoutMinutes]]

authVariables(jar, data, USER) ==
  [kind |-> "bundle",
   cookies |-> [crmid |-> JsOr(FindValue(jar, "crmid"), Null),
                k_region |-> JsOr(FindValue(jar, "k_region"), Null),
                cf_bm |-> JsOr(FindValue(jar, "__cf_bm"), Null),
                all_cookies |-> jar],
   headers |-> [X_COMPANY_ID |-> CompanyHeader(data.companyId),
                X_CSRF_Token |-> CsrfHeader(data.csrf)],
   session_info |-> [username |-> USER,
                     company_id |-> CompanyHeader(data.companyId),
                     session_timeout_minutes |-> SessionTimeoutMinutes]]

(***************************************************************************)
(* Initial state: the server is listening, the environment is read         *)
(***************************************************************************)
FreshDriver ==
  /\ browser' = "none"
  /\ closeCalls' = 0
  /\ gotoCalls' = 0
  /\ filled' = {}
  /\ navP' = "none"
  /\ clickP' = "none"

FreshVerifier ==
  /\ checks' = <<>>
  /\ loggedIn' = FALSE
  /\ fallbackCount' = 0
  /\ fallbackRes' = "none"

FreshExtract ==
  /\ cookies' = <<>>
  /\ scripts' = <<>>
  /\ authData' = NoAuthData
  /\ bundle' = NoBundle

NoError ==
  /\ failStep' = "none"
  /\ origErr' = ""
  /\ err' = ""

Init ==
  /\ API_TOKEN \in EnvValues("secret")
  /\ CHECKOUTCHAMP_USER \in EnvValues("user@example.com")
  /\ CHECKOUTCHAMP_PASS \in EnvValues("pw")
  /\ pc = "idle"
  /\ req = [path |-> "", token |-> Undef]
  /\ response = NoResponse
  /\ sent = 0
  /\ browser = "none"
  /\ launchCalls = 0
  /\ closeCalls = 0
  /\ gotoCalls = 0
  /\ filled = {}
  /\ navP = "none"
  /\ clickP = "none"
  /\ checks = <<>>
  /\ loggedIn = FALSE
  /\ fallbackCount = 0
  /\ fallbackRes = "none"
  /\ cookies = <<>>
  /\ scripts = <<>>
  /\ authData = NoAuthData
  /\ bundle = NoBundle
  /\ failStep = "none"
  /\ origErr = ""
  /\ err = ""
  /\ parked = IdleLocals

\* the server takes the next request once the previous one is answered and
\* nothing of its harvest is still pending
Listening == pc \in {"idle", "done"} /\ navP # "pending"

(***************************************************************************)
(* GET /health                                                             *)
(***************************************************************************)
GetHealth ==
  /\ Listening
  /\ req' = [path |-> "/health", token |-> Undef]
  /\ response' = [status |-> 200, error |-> "", message |-> "",
                  body |-> [kind |-> "health", status |-> "ok"]]
  /\ sent' = 1
  /\ pc' = "done"
  /\ launchCalls' = 0
  /\ FreshDriver /\ FreshVerifier /\ FreshExtract /\ NoError
  /\ UNCHANGED <<parked, config>>

(***************************************************************************)
(* POST /api/auth: verifyApiToken, then the handler up to its await, which *)
(* runs getCheckoutChampAuth up to the await of chromium.launch            *)
(***************************************************************************)
PostAuth ==
  /\ Listening
  /\ \E token \in HeaderValues :
       LET v == verifyApiToken(token) IN
       /\ req' = [path |-> "/api/auth", token |-> token]
       /\ FreshDriver /\ FreshVerifier /\ FreshExtract
       /\ IF v = "401"
          THEN /\ response' = [status |-> 401, error |-> "Unauthorized",
                               message |-> "Missing X-API-Token header",
                               body |-> NoBundle]
               /\ sent' = 1 /\ pc' = "done" /\ launchCalls' = 0 /\ NoError
          ELSE IF v = "403"
          THEN /\ response' = [status |-> 403, error |-> "Forbidden",
                               message |-> "Invalid API token",
                               body |-> NoBundle]
               /\ sent' = 1 /\ pc' = "done" /\ launchCalls' = 0 /\ NoError
          ELSE /\ response' = NoResponse
               /\ sent' = 0
               /\ IF CredsMissing(CHECKOUTCHAMP_USER, CHECKOUTCHAMP_PASS)
                  THEN /\ pc' = "rejected"
                       /\ launchCalls' = 0
                       /\ failStep' = "config"
                       /\ origErr' = ConfigMsg
                       /\ err' = ConfigMsg
                  ELSE /\ pc' = "launch"
                       /\ launchCalls' = 1
                       /\ NoError
  /\ UNCHANGED <<parked, config>>

(***************************************************************************)
(* getCheckoutChampAuth, one action per await                              *)
(***************************************************************************)
\* an exception before the try block: the promise of the harvest rejects
Reject(step) ==
  /\ pc' = "rejected"
  /\ failStep' = step
  /\ origErr' = LibErr(step)
  /\ err' = LibErr(step)

\* an exception inside the try block: control moves to the catch clause
Throw(step, msg) ==
  /\ pc' = "catch"
  /\ failStep' = step
  /\ origErr' = msg
  /\ err' = msg

\* await chromium.launch(...)
Launch ==
  /\ pc = "launch"
  /\ \E ok \in BOOLEAN :
       IF ok THEN /\ browser' = "open" /\ pc' = "newContext"
                  /\ UNCHANGED errors
       ELSE /\ Reject("chromium.launch") /\ UNCHANGED browser
  /\ UNCHANGED <<parked, config, http, launchCalls, closeCalls, gotoCalls, filled,
                 navP, clickP, verifier, extract>>

\* await browser.newContext(...)
NewContext ==
  /\ pc = "newContext"
  /\ \E ok \in BOOLEAN :
       IF ok THEN pc' = "newPage" /\ UNCHANGED errors
       ELSE Reject("browser.newContext")
  /\ UNCHANGED <<parked, config, http, driver, verifier, extract>>

\* await context.newPage()
NewPage ==
  /\ pc = "newPage"
  /\ \E ok \in BOOLEAN :
       IF ok THEN pc' = "goto" /\ UNCHANGED errors
       ELSE Reject("context.newPage")
  /\ UNCHANGED <<parked, config, http, driver, verifier, extract>>

\* await page.goto(LOGIN_URL, ...)
GotoLogin ==
  /\ pc = "goto"
  /\ gotoCalls' = gotoCalls + 1
  /\ \E ok \in BOOLEAN :
       IF ok THEN pc' = "fillUser" /\ UNCHANGED errors
       ELSE Throw("page.goto", LibErr("page.goto"))
  /\ UNCHANGED <<parked, config, http, browser, launchCalls, closeCalls, filled,
                 navP, clickP, verifier, extract>>

\* await page.fill('input[name="userName"]', USER, ...)
FillUser ==
  /\ pc = "fillUser"
  /\ \E ok \in BOOLEAN :
       IF ok THEN /\ filled' = filled \cup {"userName"} /\ pc' = "fillPass"
                  /\ UNCHANGED errors
       ELSE /\ Throw("fill userName", LibErr("page.fill userName"))
            /\ UNCHANGED filled
  /\ UNCHANGED <<parked, config, http, browser, launchCalls, closeCalls, gotoCalls,
                 navP, clickP, verifier, extract>>

\* await page.fill('input[name="password"]', PASS, ...)
FillPass ==
  /\ pc = "fillPass"
  /\ \E ok \in BOOLEAN :
       IF ok THEN /\ filled' = filled \cup {"password"} /\ pc' = "submit"
                  /\ UNCHANGED errors
       ELSE /\ Throw("fill password", LibErr("page.fill password"))
            /\ UNCHANGED filled
  /\ UNCHANGED <<parked, config, http, browser, launchCalls, closeCalls, gotoCalls,
                 navP, clickP, verifier, extract>>

\* Promise.all([page.waitForNavigation(...).catch(() => null),
\* page.click('#loginBtn')]): both calls are made, then the harvest awaits
Submit ==
  /\ pc = "submit"
  /\ navP' = "pending"
  /\ clickP' = "pending"
  /\ pc' = "race"
  /\ UNCHANGED <<parked, config, http, browser, launchCalls, closeCalls, gotoCalls,
                 filled, verifier, extract, errors>>

\* variant: a timeout of the wait treated as an exception
NavSettle_TimeoutThrows ==
  /\ navP = "pending"
  /\ \E r \in {"navigated", "timeout"} :
       /\ navP' = r
       /\ IF r = "timeout" /\ pc = "race"
          THEN Throw("page.waitForNavigation", LibErr("page.waitForNavigation"))
          ELSE /\ pc' = IF pc = "race" /\ clickP = "ok" THEN "settle" ELSE pc
               /\ UNCHANGED errors
  /\ UNCHANGED <<parked, config, http, browser, launchCalls, closeCalls, gotoCalls,
                 filled, clickP, verifier, extract>>

\* the navigation wait settles: it completed, or it was rejected (timeout,
\* page closed) and .catch(() => null) turned that into a fulfilment
NavSettle ==
  /\ navP = "pending"
  /\ \E r \in {"navigated", "timeout"} : navP' = r
  /\ pc' = IF pc = "race" /\ clickP = "ok" THEN "settle" ELSE pc
  /\ UNCHANGED <<parked, config, http, browser, launchCalls, closeCalls, gotoCalls,
                 filled, clickP, verifier, extract, errors>>

\* variant: the harvest going on as soon as the click is fulfilled
ClickSettle_NoWait ==
  /\ pc = "race"
  /\ clickP = "pending"
  /\ \E ok \in BOOLEAN :
       IF ok
       THEN /\ clickP' = "ok"
            /\ pc' = "settle"
            /\ UNCHANGED errors
       ELSE /\ clickP' = "failed"
            /\ Throw("page.click", LibErr("page.click"))
  /\ UNCHANGED <<parked, config, http, browser, launchCalls, closeCalls, gotoCalls,
                 filled, navP, verifier, extract>>

\* the click settles; a rejection rejects Promise.all at once
ClickSettle ==
  /\ pc = "race"
  /\ clickP = "pending"
  /\ \E ok \in BOOLEAN :
       IF ok
       THEN /\ clickP' = "ok"
            /\ pc' = IF navP # "pending" THEN "settle" ELSE pc
            /\ UNCHANGED errors
       ELSE /\ clickP' = "failed"
            /\ Throw("page.click", LibErr("page.click"))
  /\ UNCHANGED <<parked, config, http, browser, launchCalls, closeCalls, gotoCalls,
                 filled, navP, verifier, extract>>

\* await page.waitForTimeout(2000)
SettleDelay ==
  /\ pc = "settle"
  /\ \E ok \in BOOLEAN :
       IF ok THEN pc' = "verify1" /\ UNCHANGED errors
       ELSE Throw("page.waitForTimeout", LibErr("page.waitForTimeout"))
  /\ UNCHANGED <<parked, config, http, driver, verifier, extract>>

(***************************************************************************)
(* 3) Verify login                                                         *)
(***************************************************************************)
\* const currentURL = page.url(); let loggedIn = ... ; the text probe is
\* awaited only when the URL does not match, and may reject
VerifyFirst ==
  /\ pc = "verify1"
  /\ \E url \in UrlPool, text \in TextPool \cup {"rejects"} :
       LET obs == Observe(url, text) IN
       IF obs.text = "rejects"
       THEN /\ Throw("page.$", LibErr("page.$"))
            /\ UNCHANGED <<checks, loggedIn>>
       ELSE /\ checks' = Append(checks, obs)
            /\ loggedIn' = Confirmed(obs)
            /\ pc' = IF Confirmed(obs) THEN "cookies" ELSE "fallback"
            /\ UNCHANGED errors
  /\ UNCHANGED <<parked, config, http, driver, fallbackCount, fallbackRes, extract>>

\* variant: the fallback navigation without its .catch
FallbackGoto_Fatal ==
  /\ pc = "fallback"
  /\ gotoCalls' = gotoCalls + 1
  /\ fallbackCount' = fallbackCount + 1
  /\ \E r \in {"ok", "failed"} :
       /\ fallbackRes' = r
       /\ IF r = "ok" THEN pc' = "verify2" /\ UNCHANGED errors
          ELSE Throw("page.goto", LibErr("page.goto"))
  /\ UNCHANGED <<parked, config, http, browser, launchCalls, closeCalls, filled,
                 navP, clickP, checks, loggedIn, extract>>

\* if (!loggedIn) await page.goto(`${BASE}/dashboard/`, ...).catch(() => null)
FallbackGoto ==
  /\ pc = "fallback"
  /\ gotoCalls' = gotoCalls + 1
  /\ fallbackCount' = fallbackCount + 1
  /\ \E r \in {"ok", "failed"} : fallbackRes' = r
  /\ pc' = "verify2"
  /\ UNCHANGED <<parked, config, http, browser, launchCalls, closeCalls, filled,
                 navP, clickP, checks, loggedIn, extract, errors>>

\* variant: the re-evaluation without the throw of line 93
VerifySecond_NoThrow ==
  /\ pc = "verify2"
  /\ \E url \in UrlPool, text \in TextPool :
       /\ checks' = Append(checks, Observe(url, text))
       /\ loggedIn' = Confirmed(Observe(url, text))
  /\ pc' = "cookies"
  /\ UNCHANGED <<parked, config, http, driver, fallbackCount, fallbackRes, extract,
                 errors>>

\* const url2 = page.url(); loggedIn = ... ; then if (!loggedIn) throw
VerifySecond ==
  /\ pc = "verify2"
  /\ \E url \in UrlPool, text \in TextPool \cup {"rejects"} :
       LET obs == Observe(url, text) IN
       IF obs.text = "rejects"
       THEN /\ Throw("page.$", LibErr("page.$"))
            /\ UNCHANGED <<checks, loggedIn>>
       ELSE /\ checks' = Append(checks, obs)
            /\ loggedIn' = Confirmed(obs)
            /\ IF Confirmed(obs)
               THEN pc' = "cookies" /\ UNCHANGED errors
               ELSE Throw("login", LoginFailedMsg)
  /\ UNCHANGED <<parked, config, http, driver, fallbackCount, fallbackRes, extract>>

(***************************************************************************)
(* 4) and 5) Extraction                                                    *)
(***************************************************************************)
\* const cookies = await context.cookies()
ReadCookiesFrom(jars) ==
  /\ pc = "cookies"
  /\ \E ok \in BOOLEAN :
       IF ok
       THEN /\ \E jar \in jars : cookies' = jar
            /\ pc' = "evaluate"
            /\ UNCHANGED errors
       ELSE /\ Throw("context.cookies", LibErr("context.cookies"))
            /\ UNCHANGED cookies
  /\ UNCHANGED <<parked, config, http, driver, verifier, scripts, authData, bundle>>

ReadCookies == ReadCookiesFrom(CookieJars)

\* const authData = await page.evaluate(() => {...}); scripts is what
\* document.querySelectorAll('script') returned to the callback
EvaluateFrom(pages) ==
  /\ pc = "evaluate"
  /\ \E ok \in BOOLEAN :
       IF ok
       THEN /\ \E ss \in pages :
                 /\ scripts' = ss
                 /\ authData' = EvaluateAuthData(ss)
            /\ pc' = "close"
            /\ UNCHANGED errors
       ELSE /\ Throw("page.evaluate", LibErr("page.evaluate"))
            /\ UNCHANGED <<scripts, authData>>
  /\ UNCHANGED <<parked, config, http, driver, verifier, cookies, bundle>>

Evaluate == EvaluateFrom(Pages)

(***************************************************************************)
(* Release, response object, catch clause                                  *)
(***************************************************************************)
\* variant: a release that closes every open browser
CloseSettles_AllBrowsers(ok) ==
  /\ closeCalls' = closeCalls + 1
  /\ scripts' = <<>>
  /\ IF ok THEN browser' = "closed"
     ELSE \E b \in {"open", "closed"} : browser' = b
  /\ parked' = [parked EXCEPT !.browser =
                  IF @ = "open" THEN "closed" ELSE @]

\* browser.close() was called and settles: fulfilled, the browser is gone;
\* rejected, it may or may not be
CloseSettles(ok) ==
  /\ parked' = parked
  /\ closeCalls' = closeCalls + 1
  /\ scripts' = <<>>
  /\ IF ok THEN browser' = "closed"
     ELSE \E b \in {"open", "closed"} : browser' = b

\* variant: the success path without its release
CloseBrowser_Skip ==
  /\ pc = "close"
  /\ pc' = "build"
  /\ UNCHANGED <<parked, config, http, driver, verifier, extract, errors>>

\* await browser.close() of the success path (line 128)
CloseBrowser ==
  /\ pc = "close"
  /\ \E ok \in BOOLEAN :
       /\ CloseSettles(ok)
       /\ IF ok THEN pc' = "build" /\ UNCHANGED errors
          ELSE Throw("browser.close", CloseErr)
  /\ UNCHANGED <<config, http, launchCalls, gotoCalls, filled, navP, clickP,
                 verifier, cookies, authData, bundle>>

\* const authVariables = {...}; return authVariables
Build ==
  /\ pc = "build"
  /\ bundle' = authVariables(cookies, authData, CHECKOUTCHAMP_USER)
  /\ pc' = "returned"
  /\ UNCHANGED <<parked, config, http, driver, verifier, cookies, scripts, authData,
                 errors>>

\* variant: a catch clause that rethrows without releasing
CatchClose_Skip ==
  /\ pc = "catch"
  /\ pc' = "rejected"
  /\ UNCHANGED <<parked, config, http, driver, verifier, extract, errors>>

\* catch (error) { await browser.close(); throw error; }
CatchClose ==
  /\ pc = "catch"
  /\ \E ok \in BOOLEAN :
       /\ CloseSettles(ok)
       /\ err' = IF ok THEN err ELSE CloseErr
  /\ pc' = "rejected"
  /\ UNCHANGED <<config, http, launchCalls, gotoCalls, filled, navP, clickP,
                 verifier, cookies, authData, bundle, failStep, origErr>>

(***************************************************************************)
(* The handler of POST /api/auth after its await                           *)
(***************************************************************************)
\* res.json(authData)
HandlerThen ==
  /\ pc = "returned"
  /\ response' = [status |-> 200, error |-> "", message |-> "",
                  body |-> bundle]
  /\ sent' = sent + 1
  /\ pc' = "done"
  /\ UNCHANGED <<parked, config, req, driver, verifier, extract, errors>>

\* variant: a catch clause that sends nothing
HandlerCatch_Silent ==
  /\ pc = "rejected"
  /\ pc' = "done"
  /\ UNCHANGED <<parked, config, http, driver, verifier, extract, errors>>

\* catch (error) { res.status(500).json({...message: error.message}) }
HandlerCatch ==
  /\ pc = "rejected"
  /\ response' = [status |-> 500, error |-> "Internal Server Error",
                  message |-> err, body |-> NoBundle]
  /\ sent' = sent + 1
  /\ pc' = "done"
  /\ UNCHANGED <<parked, config, req, driver, verifier, extract, errors>>

Next ==
  \/ GetHealth
  \/ PostAuth
  \/ Launch
  \/ NewContext
  \/ NewPage
  \/ GotoLogin
  \/ FillUser
  \/ FillPass
  \/ Submit
  \/ NavSettle
  \/ ClickSettle
  \/ SettleDelay
  \/ VerifyFirst
  \/ FallbackGoto
  \/ VerifySecond
  \/ ReadCookies
  \/ Evaluate
  \/ CloseBrowser
  \/ Build
  \/ CatchClose
  \/ HandlerThen
  \/ HandlerCatch

Spec == Init /\ [][Next]_vars

\* the steps of a request in hand: every awaited call settles (the library
\* bounds its waits) and the event loop runs the continuation
Progress ==
  \/ Launch
  \/ NewContext
  \/ NewPage
  \/ GotoLogin
  \/ FillUser
  \/ FillPass
  \/ Submit
  \/ NavSettle
  \/ ClickSettle
  \/ SettleDelay
  \/ VerifyFirst
  \/ FallbackGoto
  \/ VerifySecond
  \/ ReadCookies
  \/ Evaluate
  \/ CloseBrowser
  \/ Build
  \/ CatchClose
  \/ HandlerThen
  \/ HandlerCatch

SpecLive == Init /\ [][Next]_vars /\ WF_vars(Progress)

(***************************************************************************)
(* Two invocations of the handler at once.  Node runs one continuation at  *)
(* a time and may turn to the other invocation at every await: Switch      *)
(* parks the invocation in hand and resumes the parked one.  The site      *)
(* serves one of two cookie jars and one of two pages.                     *)
(***************************************************************************)
TwoJars ==
  { JarOf([i \in 1..3 |-> "v"]), JarOf([i \in 1..3 |-> Absent]) }

TwoPages ==
  { <<>>, << << <<Pair("csrfToken", "tokA"),
                  Pair("currentCompanyId", "77")>> >> >> }

ReadCookiesTwo == ReadCookiesFrom(TwoJars)

EvaluateTwo == EvaluateFrom(TwoPages)

Switch ==
  /\ parked' = Locals
  /\ pc' = parked.pc
  /\ req' = parked.req
  /\ response' = parked.response
  /\ sent' = parked.sent
  /\ browser' = parked.browser
  /\ launchCalls' = parked.launchCalls
  /\ closeCalls' = parked.closeCalls
  /\ gotoCalls' = parked.gotoCalls
  /\ filled' = parked.filled
  /\ navP' = parked.navP
  /\ clickP' = parked.clickP
  /\ checks' = parked.checks
  /\ loggedIn' = parked.loggedIn
  /\ fallbackCount' = parked.fallbackCount
  /\ fallbackRes' = parked.fallbackRes
  /\ cookies' = parked.cookies
  /\ scripts' = parked.scripts
  /\ authData' = parked.authData
  /\ bundle' = parked.bundle
  /\ failStep' = parked.failStep
  /\ origErr' = parked.origErr
  /\ err' = parked.err
  /\ UNCHANGED config

InitTwo ==
  /\ Init
  /\ API_TOKEN = "secret"
  /\ CHECKOUTCHAMP_USER = "user@example.com"
  /\ CHECKOUTCHAMP_PASS = "pw"

NextTwo ==
  \/ Switch
  \/ GetHealth
  \/ PostAuth
  \/ Launch
  \/ NewContext
  \/ NewPage
  \/ GotoLogin
  \/ FillUser
  \/ FillPass
  \/ Submit
  \/ NavSettle
  \/ ClickSettle
  \/ SettleDelay
  \/ VerifyFirst
  \/ FallbackGoto
  \/ VerifySecond
  \/ ReadCookiesTwo
  \/ EvaluateTwo
  \/ CloseBrowser
  \/ Build
  \/ CatchClose
  \/ HandlerThen
  \/ HandlerCatch

SpecTwo == InitTwo /\ [][NextTwo]_vars

(***************************************************************************)
(* The assembler on its own: authVariables applied to every pair of        *)
(* optional embedded values, the empty string included                     *)
(***************************************************************************)
OptionalValues == {Null, "", "tokA", "77"}

InitAssemble ==
  /\ API_TOKEN = "secret"
  /\ CHECKOUTCHAMP_USER = "user@example.com"
  /\ CHECKOUTCHAMP_PASS = "pw"
  /\ pc = "build"
  /\ req = [path |-> "/api/auth", token |-> "secret"]
  /\ response = NoResponse
  /\ sent = 0
  /\ browser = "closed"
  /\ launchCalls = 1
  /\ closeCalls = 1
  /\ gotoCalls = 1
  /\ filled = {"userName", "password"}
  /\ navP \in {"navigated", "timeout"}
  /\ clickP = "ok"
  /\ checks = <<Observe(DashboardPath, "found")>>
  /\ loggedIn = TRUE
  /\ fallbackCount = 0
  /\ fallbackRes = "none"
  /\ cookies \in CookieJars
  /\ scripts = <<>>
  /\ authData \in [csrf : OptionalValues, companyId : OptionalValues]
  /\ bundle = NoBundle
  /\ failStep = "none"
  /\ origErr = ""
  /\ err = ""
  /\ parked = IdleLocals

NextAssemble == Build

SpecAssemble == InitAssemble /\ [][NextAssemble]_vars

(***************************************************************************)
(* Properties                                                              *)
(***************************************************************************)
\* the request in hand is a POST /api/auth that passed verifyApiToken
Authorized ==
  /\ req.path = "/api/auth"
  /\ req.token \notin {Undef, ""}
  /\ req.token = API_TOKEN

\* the two signals of the verifier, read off a recorded observation
Signal(obs) == obs.url = DashboardPath \/ obs.text = "found"

\* the steps inside the try block, the release call excepted
TrySteps ==
  {"page.goto", "fill userName", "fill password", "page.click",
   "page.waitForTimeout", "page.$", "login", "context.cookies",
   "page.evaluate"}

\* C1: when a step inside the try block fails (initial load, a fill, the
\* click, the verification, the cookie read, the script evaluation),
\* browser.close is never called more than once, and it has been called
\* exactly once when the error reaches the caller and from then on.
C1_ReleaseOnceBeforePropagation ==
  failStep \in TrySteps =>
    /\ closeCalls <= 1
    /\ (pc = "catch" => closeCalls = 0)
    /\ (pc \in {"rejected", "done"} => closeCalls = 1)

C1_Witness ==
  /\ pc = "rejected"
  /\ failStep = "page.evaluate"
  /\ closeCalls = 1

\* C2: once a harvest that launched a browser has returned or thrown, that
\* browser is closed.
C2_NoBrowserLeftOpen ==
  (pc \in {"returned", "rejected", "done"} /\ browser # "none")
    => browser = "closed"

\* C3: with the username or the password absent or empty, the harvest fails
\* with the configuration error and no browser is launched, no page is
\* navigated and no release is invoked.
C3_ConfigErrorBeforeBrowser ==
  (CHECKOUTCHAMP_USER \in {Undef, ""} \/ CHECKOUTCHAMP_PASS \in {Undef, ""}) =>
    /\ launchCalls = 0 /\ browser = "none"
    /\ gotoCalls = 0 /\ closeCalls = 0 /\ filled = {}
    /\ pc \in {"idle", "rejected", "done"}
    /\ (pc = "rejected" => failStep = "config" /\ err = ConfigMsg)
    /\ (pc = "done" /\ Authorized =>
          response.status = 500 /\ response.message = ConfigMsg)

C3_Witness ==
  /\ pc = "rejected"
  /\ failStep = "config"
  /\ CHECKOUTCHAMP_USER = "user@example.com"
  /\ CHECKOUTCHAMP_PASS = ""
  /\ launchCalls = 0

\* C4: a bundle exists, and a 200 answers POST /api/auth, only when the last
\* evaluation of the verifier saw the dashboard URL or the text "reports",
\* at the first evaluation or at the one after the fallback.
C4_BundleOnlyAfterConfirmed ==
  (bundle.kind = "bundle" \/ (req.path = "/api/auth" /\ response.status = 200))
    => /\ loggedIn
       /\ Len(checks) \in {1, 2}
       /\ Signal(checks[Len(checks)])
       /\ (Len(checks) = 2 => fallbackCount = 1 /\ ~Signal(checks[1]))

C4_Witness ==
  /\ req.path = "/api/auth"
  /\ response.status = 200
  /\ response.body.kind = "bundle"
  /\ Len(checks) = 2
  /\ checks[2].url = LoginPath

\* C5: when the first evaluation sees the dashboard URL the login is
\* confirmed without a fallback navigation; the fallback navigation happens
\* only after a first evaluation that found neither signal.
C5_DashboardUrlSkipsFallback ==
  /\ (Len(checks) >= 1 /\ checks[1].url = DashboardPath) =>
        /\ loggedIn /\ fallbackCount = 0 /\ Len(checks) = 1
        /\ pc \notin {"fallback", "verify2"}
  /\ (fallbackCount > 0 \/ pc = "fallback") =>
        /\ Len(checks) >= 1
        /\ checks[1].url # DashboardPath
        /\ checks[1].text = "absent"

C5_Witness ==
  /\ pc = "cookies"
  /\ Len(checks) = 1
  /\ checks[1].url = DashboardPath
  /\ fallbackCount = 0

\* C6: a first evaluation that finds neither signal is followed by exactly
\* one fallback navigation and one re-evaluation; when that finds neither
\* signal either, the harvest aborts with the login-failed error.  The
\* fallback navigation never happens twice.
C6_OneFallbackThenFailed ==
  /\ fallbackCount <= 1
  /\ Len(checks) <= 2
  /\ (Len(checks) >= 1 /\ ~Signal(checks[1])) =>
        \/ pc = "fallback" /\ fallbackCount = 0
        \/ pc # "fallback" /\ fallbackCount = 1
  /\ (pc = "verify2" => fallbackCount = 1 /\ Len(checks) = 1)
  /\ (Len(checks) = 2 => fallbackCount = 1)
  /\ (Len(checks) = 2 /\ ~Signal(checks[2])) =>
        /\ ~loggedIn
        /\ failStep = "login" /\ origErr = LoginFailedMsg
        /\ pc \in {"catch", "rejected", "done"}
        /\ bundle = NoBundle

C6_Witness ==
  /\ pc = "rejected"
  /\ Len(checks) = 2
  /\ fallbackCount = 1
  /\ failStep = "login"
  /\ err = LoginFailedMsg

\* C7 as stated: no header gives 401 Unauthorized, a header value different
\* from the configured token gives 403 Forbidden, and only a header equal to
\* the configured token reaches the harvest.
C7_AsStated ==
  (req.path = "/api/auth") =>
    /\ (req.token = Undef =>
          response.status = 401 /\ response.error = "Unauthorized")
    /\ (req.token # Undef /\ req.token # API_TOKEN =>
          response.status = 403 /\ response.error = "Forbidden")
    /\ (response.status \notin {401, 403} => req.token = API_TOKEN)

\* C7 amended: no header or an empty header value gives 401 Unauthorized, a
\* non-empty header value different from the configured token gives 403
\* Forbidden, and only a non-empty header value equal to the configured
\* token reaches the harvest.
C7_TokenGate ==
  (req.path = "/api/auth") =>
    /\ (req.token \in {Undef, ""} =>
          /\ response.status = 401 /\ response.error = "Unauthorized"
          /\ pc = "done" /\ launchCalls = 0)
    /\ (req.token \notin {Undef, ""} /\ req.token # API_TOKEN =>
          /\ response.status = 403 /\ response.error = "Forbidden"
          /\ pc = "done" /\ launchCalls = 0)
    /\ (response.status \notin {401, 403} =>
          req.token \notin {Undef, ""} /\ req.token = API_TOKEN)

C7_Witness ==
  /\ req.path = "/api/auth"
  /\ req.token = "wrong"
  /\ API_TOKEN = "secret"
  /\ response.status = 403

\* C8: for a request with the right token, a harvest that succeeded is
\* answered 200 with the bundle, and a harvest that failed is answered 500
\* "Internal Server Error" with the message of the error that made it fail.
C8_ErrorMessageReported ==
  (pc = "done" /\ Authorized) =>
    IF failStep = "none"
    THEN /\ response.status = 200
         /\ response.body.kind = "bundle"
         /\ response.body = bundle
    ELSE /\ response.status = 500
         /\ response.error = "Internal Server Error"
         /\ response.message = origErr

\* value of a key in the first script, in document order, whose matched
\* aDom.construct call defines it
FirstDefining(ss, Match(_)) ==
  LET idx == { i \in 1..Len(ss) : Match(AdomMatch(ss[i]).configStr) # Null }
  IN  IF idx = {} THEN Null
      ELSE Match(AdomMatch(ss[MinOf(idx)]).configStr)

\* C9: after page.evaluate, csrf is the csrfToken of the first script that
\* defines one and companyId the currentCompanyId of the first script that
\* defines one, each key on its own; later scripts do not override them.
C9_FirstMatchWins ==
  pc = "close" =>
    /\ authData.csrf = FirstDefining(scripts, CsrfMatch)
    /\ authData.companyId = FirstDefining(scripts, CompanyMatch)

C9_Witness ==
  /\ pc = "close"
  /\ Len(scripts) = 2
  /\ CsrfMatch(AdomMatch(scripts[1]).configStr) = "tokA"
  /\ CsrfMatch(AdomMatch(scripts[2]).configStr) = "tokB"
  /\ authData = [csrf |-> "tokA", companyId |-> "77"]

\* C10: in the bundle the tenant header and session_info.company_id are
\* "4623" when the extracted tenant id is null or empty and the extracted
\* id otherwise; the CSRF header is null when the extracted token is null
\* or empty, never "4623" in its place, and the extracted token otherwise.
C10_AsymmetricDefaults ==
  bundle.kind = "bundle" =>
    /\ bundle.headers.X_COMPANY_ID =
         IF authData.companyId \in {Null, ""} THEN "4623"
         ELSE authData.companyId
    /\ bundle.session_info.company_id = bundle.headers.X_COMPANY_ID
    /\ bundle.headers.X_CSRF_Token =
         IF authData.csrf \in {Null, ""} THEN Null ELSE authData.csrf

C10_Witness ==
  /\ bundle.kind = "bundle"
  /\ authData = [csrf |-> Null, companyId |-> ""]
  /\ bundle.headers.X_COMPANY_ID = "4623"
  /\ bundle.headers.X_CSRF_Token = Null

\* scripts the pattern of line 113 does not match: one without any
\* aDom.construct call, one whose only call has nothing between its braces
UnrelatedScripts == { <<>>, << <<>> >> }

\* ss with script u inserted after its first i scripts
InsertAt(ss, i, u) == SubSeq(ss, 1, i) \o <<u>> \o SubSeq(ss, i + 1, Len(ss))

\* C11: the values extracted from a page do not change when a script the
\* object-construction pattern does not match is inserted at any position,
\* and evaluating the same page again gives the same values.
C11_UnrelatedScriptsIgnored ==
  pc = "close" =>
    /\ EvaluateAuthData(scripts) = authData
    /\ \A i \in 0..Len(scripts), u \in UnrelatedScripts :
         EvaluateAuthData(InsertAt(scripts, i, u)) = authData

C11_Witness ==
  /\ pc = "close"
  /\ Len(scripts) = 2
  /\ scripts[2] \in UnrelatedScripts
  /\ authData = [csrf |-> "tokB", companyId |-> "77"]

HasCookie(jar, n) == \E i \in 1..Len(jar) : jar[i].name = n

\* C12: missing cookies and missing embedded values are no error.  After a
\* confirmed login only a rejected library call makes the harvest fail, and
\* the bundle holds null for each of crmid, k_region, __cf_bm that the jar
\* lacks, null for a missing CSRF token and "4623" for a missing tenant id.
C12_ExtractionMissIsNoError ==
  /\ (loggedIn /\ failStep # "none") =>
        failStep \in {"context.cookies", "page.evaluate", "browser.close"}
  /\ (pc \in {"evaluate", "close", "build", "returned"}) => failStep = "none"
  /\ bundle.kind = "bundle" =>
        /\ bundle.cookies.all_cookies = cookies
        /\ (~HasCookie(cookies, "crmid") => bundle.cookies.crmid = Null)
        /\ (~HasCookie(cookies, "k_region") => bundle.cookies.k_region = Null)
        /\ (~HasCookie(cookies, "__cf_bm") => bundle.cookies.cf_bm = Null)
        /\ (authData.csrf = Null => bundle.headers.X_CSRF_Token = Null)
        /\ (authData.companyId = Null =>
              /\ bundle.headers.X_COMPANY_ID = "4623"
              /\ bundle.session_info.company_id = "4623")

C12_Witness ==
  /\ req.path = "/api/auth"
  /\ response.status = 200
  /\ ~HasCookie(cookies, "crmid")
  /\ ~HasCookie(cookies, "k_region")
  /\ ~HasCookie(cookies, "__cf_bm")
  /\ authData = [csrf |-> Null, companyId |-> Null]
  /\ response.body.cookies.crmid = Null
  /\ response.body.headers.X_CSRF_Token = Null

\* C13: a failure of the initial page.goto aborts the harvest before any
\* field is filled; a timeout of the navigation wait of the submit step is
\* no error, and once the click has succeeded the harvest goes on to the
\* settle delay and the verification as after a completed wait.
C13_InitialLoadFatalSubmitWaitTolerated ==
  /\ failStep = "page.goto" =>
        /\ filled = {} /\ navP = "none" /\ clickP = "none"
        /\ checks = <<>> /\ bundle = NoBundle
        /\ pc \in {"catch", "rejected", "done"}
  /\ failStep # "page.waitForNavigation"
  /\ (navP \in {"navigated", "timeout"} /\ clickP = "ok") =>
        /\ pc # "race"
        /\ (failStep = "none" => pc \notin {"catch", "rejected"})

C13_Witness ==
  /\ navP = "timeout"
  /\ clickP = "ok"
  /\ pc = "cookies"
  /\ Len(checks) = 1

\* C15: a failed fallback navigation is never the error of the harvest.
\* The verifier evaluates the two conditions again on the current page; with
\* a signal the login is confirmed, without one the harvest fails with the
\* login-failed error.
C15_FallbackFailureNotSurfaced ==
  fallbackRes = "failed" =>
    /\ failStep # "page.goto"
    /\ origErr # LibErr("page.goto") /\ err # LibErr("page.goto")
    /\ (pc = "verify2" \/ Len(checks) = 2 \/ failStep = "page.$")
    /\ Len(checks) = 2 =>
         IF Signal(checks[2])
         THEN loggedIn /\ failStep # "login"
         ELSE ~loggedIn /\ failStep = "login" /\ origErr = LoginFailedMsg

C15_Witness ==
  /\ fallbackRes = "failed"
  /\ Len(checks) = 2
  /\ loggedIn
  /\ bundle.kind = "bundle"

\* the positions of the harvest after the Promise.all of the submit step
AfterSubmit ==
  {"settle", "verify1", "fallback", "verify2", "cookies", "evaluate",
   "close", "build", "returned"}

\* C16: once both fields are filled and the submit step has started, the
\* click has been issued whatever the navigation wait does; the harvest
\* moves past the submit step only with the click fulfilled and the wait
\* settled; a rejected click aborts the harvest before any verification.
C16_ClickAlwaysIssued ==
  /\ (filled = {"userName", "password"} /\ pc # "submit") =>
        clickP # "none" /\ navP # "none"
  /\ pc = "race" => (clickP = "pending" \/ navP = "pending")
  /\ (pc \in AfterSubmit \/ Len(checks) > 0) =>
        clickP = "ok" /\ navP \in {"navigated", "timeout"}
  /\ clickP = "failed" =>
        /\ failStep = "page.click"
        /\ checks = <<>>
        /\ pc \in {"catch", "rejected", "done"}

C16_Witness ==
  /\ pc = "rejected"
  /\ clickP = "failed"
  /\ navP = "pending"
  /\ failStep = "page.click"

\* C17: browser.close is invoked at most once in a harvest, also when the
\* call of the success path rejects.
C17_ReleaseAtMostOnce == closeCalls <= 1

\* C18: a browser is launched, and credentials are typed, only while
\* handling a POST /api/auth whose X-API-Token is non-empty and equal to the
\* configured token; a request answered 401 or 403 and GET /health launch
\* nothing; with no API token configured no request is authorized.
C18_NoHarvestWithoutAuthorization ==
  /\ (launchCalls > 0 \/ browser # "none" \/ filled # {}
        \/ pc \notin {"idle", "done"}) => Authorized
  /\ (response.status \in {401, 403} \/ req.path = "/health") =>
        launchCalls = 0 /\ browser = "none" /\ filled = {}
  /\ API_TOKEN \in {Undef, ""} =>
        /\ ~Authorized
        /\ launchCalls = 0
        /\ (req.path = "/api/auth" => response.status \in {401, 403})

C18_Witness ==
  /\ API_TOKEN = Undef
  /\ req = [path |-> "/api/auth", token |-> Undef]
  /\ response.status = 401
  /\ launchCalls = 0

\* C20: cookies and inline scripts are read only after the login is
\* confirmed and with the browser open; the browser is closed before the
\* bundle is built, so no 200 is sent with the browser still open.
C20_ReadThenCloseThenBuild ==
  /\ pc \in {"cookies", "evaluate", "close"} =>
        loggedIn /\ browser = "open" /\ closeCalls = 0
  /\ (Len(cookies) > 0 \/ authData # NoAuthData) => loggedIn
  /\ (pc = "build" \/ bundle.kind = "bundle") =>
        browser = "closed" /\ closeCalls = 1
  /\ (req.path = "/api/auth" /\ response.status = 200) => browser = "closed"

C20_Witness ==
  /\ req.path = "/api/auth"
  /\ response.status = 200
  /\ browser = "closed"
  /\ Len(cookies) > 0
  /\ Len(checks) = 1

\* a POST /api/auth is in hand and not answered yet
InFlight == pc \notin {"idle", "done"}

\* C19: every POST /api/auth is answered, and answered once, with 401, 403,
\* 200 or 500, whichever step of the harvest fails: no response is sent
\* while the request is in hand, exactly one has been sent when it is done,
\* and a request in hand is eventually done.
C19_ExactlyOneResponse ==
  /\ [](/\ sent <= 1
        /\ (InFlight => sent = 0 /\ response = NoResponse)
        /\ (pc = "done" => sent = 1)
        /\ (pc = "done" /\ req.path = "/api/auth" =>
              response.status \in {401, 403, 200, 500}))
  /\ (InFlight ~> pc = "done")

C19_Witness ==
  /\ pc = "done"
  /\ sent = 1
  /\ response.status = 500
  /\ failStep = "page.goto"
  /\ response.message = CloseErr

\* an invocation works on its own browser and its own reads: it has
\* launched the browser it holds, releases only after a launch, and its
\* bundle is made of the cookies and embedded values it read itself
OwnState(l) ==
  /\ l.launchCalls <= 1
  /\ (l.browser # "none" => l.launchCalls = 1)
  /\ (l.closeCalls > 0 => l.browser # "none")
  /\ l.bundle.kind = "bundle" =>
       /\ l.bundle.cookies.all_cookies = l.cookies
       /\ l.bundle.headers.X_CSRF_Token = l.authData.csrf
       /\ l.bundle.headers.X_COMPANY_ID =
            IF l.authData.companyId = Null THEN "4623"
            ELSE l.authData.companyId

\* C14: with two invocations in flight under any interleaving, each holds
\* the browser it launched and builds its bundle from its own reads, and a
\* step of one invocation (a failure and a release included) leaves the
\* browser, verification result, reads and bundle of the other as they
\* were: a step either keeps the other invocation's state or only passes
\* control to it.
C14_InvocationsIndependent ==
  /\ [](OwnState(Locals) /\ OwnState(parked))
  /\ [][\/ parked' = parked
        \/ (parked' = Locals /\ Locals' = parked)]_vars

C14_Witness ==
  /\ pc = "cookies"
  /\ browser = "open"
  /\ loggedIn
  /\ parked.pc = "rejected"
  /\ parked.failStep = "page.click"
  /\ parked.browser = "closed"
  /\ parked.closeCalls = 1

====
